---- MODULE Spec2Model ----
(***************************************************************************)
(* A model of clean.py: the three phases of one run (deduplicate_files,    *)
(* update_files, archive_files) sequenced by main, over a filesystem of    *)
(* media files and their JSON sidecars.                                    *)
(*                                                                         *)
(* A path is a record [dir, name]: dir is the sequence of the directory    *)
(* segments below the parent of the target directory, each segment a       *)
(* sequence of words ("Photos from 2020" is <<"Photos","from","2020">>),    *)
(* and name is the file name split at its dots (<<"photo",".jpg">>), so     *)
(* that Path.suffix is its last component and f"{name}.json" appends one.  *)
(* The filesystem fs maps each existing path to the identity of the file   *)
(* stored there (the path the file had in the export).                     *)
(***************************************************************************)
EXTENDS Integers, Sequences, FiniteSets, TLC

VARIABLES
    fs,        \* existing path -> identity of the file at that path
    tags,      \* media identity -> its embedded tag block
    mtime,     \* media identity -> <<>> (as exported) or <<timestamp>> set by os.utime
    sidecar,   \* sidecar identity -> <<>> (does not parse) or <<timestamp>>
    scan,      \* the order in which rglob yields the media files
    opts,      \* main's options [dedup, update, archive]
    files,     \* the working list of the running phase
    idx,       \* position of the running for loop's list iterator
    trackers,  \* the processing trackers
    pc,        \* where main is
    halt,      \* "none", "error" (an exception left main) or "crash" (killed)
    moves,     \* history: every rename done, in order
    writes,    \* history: the media identities whose tags were written, in order
    lastArch,  \* history: <<>> or <<the last call of archive_file>>
    lastUpd,   \* history: <<>> or <<the last iteration of update_files>>
    runs       \* history: the filesystem, tags at the start of each run so far

vars == <<fs, tags, mtime, sidecar, scan, opts, files, idx, trackers, pc, halt,
          moves, writes, lastArch, lastUpd, runs>>

Range(s) == {s[i] : i \in 1..Len(s)}

(***************************************************************************)
(* Bounds of the model.                                                    *)
(***************************************************************************)
MaxFiles == 6
MaxRuns == 2

(***************************************************************************)
(* Settings (settings.json, read at lines 26-33) and path helpers.         *)
(***************************************************************************)
ARCHIVE_FOLDER_NAME == <<"ARCHIVE">>
target_dir == << <<"Takeout">> >>
target_parent == SubSeq(target_dir, 1, Len(target_dir) - 1)
EXT_TO_UPDATE == {".jpg", ".mp4"}
EXT_TO_ARCHIVE == {".json"}
BulkMarker == <<"Photos", "from">>

suffix(p) == p.name[Len(p.name)]
parts(p) == Range(p.dir) \cup {p.name}
JsonName(name) == Append(name, ".json")

\* str(dir).find(marker) != -1: the marker holds no separator, so it is found
\* in the joined path exactly when it is found inside one segment.
Contains(seg, marker) ==
    \E i \in 0..(Len(seg) - Len(marker)) : SubSeq(seg, i + 1, i + Len(marker)) = marker
InBulkFolder(p) == \E s \in Range(p.dir) : Contains(s, BulkMarker)

\* Path.relative_to(base), for a directory below base.
relative_to(dir, base) == SubSeq(dir, Len(base) + 1, Len(dir))
IsUnder(dir, base) == Len(dir) >= Len(base) /\ SubSeq(dir, 1, Len(base)) = base

\* A plausible slip: every archived file lands in the archive root.
get_archive_dir_flat(file) ==
    IF ARCHIVE_FOLDER_NAME \notin parts(file)
    THEN target_parent \o <<ARCHIVE_FOLDER_NAME>>
    ELSE file.dir
\* A plausible slip: the already-archived test is left out.
get_archive_dir_nocheck(file) ==
    target_parent \o <<ARCHIVE_FOLDER_NAME>> \o
        (IF IsUnder(file.dir, target_dir) THEN relative_to(file.dir, target_dir) ELSE file.dir)
get_archive_dir(file) ==
    IF ARCHIVE_FOLDER_NAME \notin parts(file)
    THEN target_parent \o <<ARCHIVE_FOLDER_NAME>> \o relative_to(file.dir, target_dir)
    ELSE file.dir

exists(f, p) == p \in DOMAIN f

get_json_file(f, working_file) ==
    LET json_file == [dir |-> working_file.dir, name |-> JsonName(working_file.name)]
    IN IF ~exists(f, json_file)
       THEN [dir |-> get_archive_dir(working_file), name |-> json_file.name]
       ELSE json_file

(***************************************************************************)
(* The world a phase works on, as one record, so that a whole loop can be  *)
(* run by an operator as well as stepped by an action.  fuel is the number *)
(* of filesystem operations left before the process is killed (-1: never). *)
(***************************************************************************)
World == [fs |-> fs, tags |-> tags, mtime |-> mtime, files |-> files, idx |-> idx,
          trackers |-> trackers, halt |-> halt, moves |-> moves, writes |-> writes,
          lastArch |-> lastArch, lastUpd |-> lastUpd, fuel |-> -1, ret |-> FALSE]

Running(w) == w.halt = "none"
Raise(w) == IF Running(w) THEN [w EXCEPT !.halt = "error"] ELSE w
\* One filesystem operation: it is not done when the process was killed before it.
Spend(w) ==
    IF ~Running(w) THEN w
    ELSE IF w.fuel = 0 THEN [w EXCEPT !.halt = "crash"]
    ELSE IF w.fuel > 0 THEN [w EXCEPT !.fuel = @ - 1]
    ELSE w

\* trackers[key] += flag
Count(w, key, flag) ==
    IF Running(w) /\ flag THEN [w EXCEPT !.trackers[key] = @ + 1] ELSE w

\* Path.rename: the file at src is at dst afterwards, replacing what was there.
rename(w, src, dst) ==
    LET s == Spend(w)
    IN IF ~Running(s) THEN s
       ELSE IF ~exists(s.fs, src) THEN Raise(s)
       ELSE [s EXCEPT
               !.fs = [p \in (DOMAIN s.fs \ {src}) \cup {dst} |->
                          IF p = dst THEN s.fs[src] ELSE s.fs[p]],
               !.moves = Append(@, [id |-> s.fs[src], src |-> src, dst |-> dst,
                                     onto |-> IF exists(s.fs, dst) THEN <<s.fs[dst]>> ELSE <<>>])]

\* The directories are implicit in the paths, so output_dir.mkdir (line 91)
\* changes nothing here.
archive_file(w, file) ==
    LET output_dir == get_archive_dir(file)
        before == w.fs
        done == IF file.dir # output_dir
                THEN [rename(w, file, [dir |-> output_dir, name |-> file.name]) EXCEPT !.ret = TRUE]
                ELSE [w EXCEPT !.ret = FALSE]
    IN IF ~Running(done) THEN done
       ELSE [done EXCEPT !.lastArch = <<[file |-> file, ret |-> done.ret, fsBefore |-> before]>>]

(***************************************************************************)
(* deduplicate_files: one iteration of its for loop, and the whole loop.   *)
(* The loop iterates over the list it removes from: the list iterator      *)
(* keeps a position, and stops when the position reaches the list's        *)
(* current length.                                                         *)
(***************************************************************************)
remove(w, f) ==
    IF Running(w) THEN [w EXCEPT !.files = SelectSeq(@, LAMBDA g : g # f)] ELSE w

\* A plausible slip: >= for ==, which also archives a group with no survivor.
ShouldArchiveAtLeast(duplicates, total_duplicates) == Len(duplicates) >= total_duplicates
\* A plausible slip: the test is off by one.
ShouldArchiveOffByOne(duplicates, total_duplicates) == Len(duplicates) = total_duplicates + 1
\* line 204
ShouldArchive(duplicates, total_duplicates) == Len(duplicates) = total_duplicates

RECURSIVE ArchiveDuplicates(_, _)
ArchiveDuplicates(w, duplicates) ==
    IF duplicates = <<>> \/ ~Running(w) THEN w
    ELSE LET dup == Head(duplicates)
             w1 == archive_file(w, dup)
             w2 == Count(w1, "deduplicated_files", w1.ret)
             dup_json == get_json_file(w2.fs, dup)
             w3 == IF exists(w2.fs, dup_json)
                   THEN LET a == archive_file(w2, dup_json)
                        IN Count(a, "archived_files", a.ret)
                   ELSE w2
         IN ArchiveDuplicates(remove(w3, dup), Tail(duplicates))

DedupIter(w) ==
    LET file == w.files[w.idx + 1]
        files_with_same_name == SelectSeq(w.files, LAMBDA f : f.name = file.name)
        total_duplicates == Len(files_with_same_name) - 1
        duplicates == SelectSeq(files_with_same_name, InBulkFolder)
        next == [w EXCEPT !.idx = @ + 1]
    IN IF total_duplicates > 0 /\ ShouldArchive(duplicates, total_duplicates)
       THEN ArchiveDuplicates(next, duplicates)
       ELSE next

RECURSIVE deduplicate_files(_)
deduplicate_files(w) ==
    IF ~Running(w) \/ w.idx >= Len(w.files) THEN w ELSE deduplicate_files(DedupIter(w))

(***************************************************************************)
(* update_metadata and update_files.  A datetime is [day, sec]; an EXIF    *)
(* date string "YYYY:MM:DD HH:MM:SS" is the pair <<day, sec>>; a tag that  *)
(* is absent (or empty) is <<>>.                                           *)
(***************************************************************************)
fromtimestamp(ts) == [day |-> ts \div 86400, sec |-> ts % 86400]
timestamp(d) == d.day * 86400 + d.sec
strftime(d) == <<d.day, d.sec>>
exif_date_to_datetime(exif_date) == [day |-> exif_date[1], sec |-> exif_date[2]]
date(d) == d.day

\* get_photo_taken_date: <<>> when the sidecar does not parse, else <<datetime>>
get_photo_taken_date(content) ==
    IF content = <<>> THEN <<>> ELSE <<fromtimestamp(content[1])>>

\* A plausible slip: only .jpeg is taken for an image with tags.
IsExifImageJpegOnly(file_path) == suffix(file_path) \in {".jpeg"}
\* line 144
IsExifImage(file_path) == suffix(file_path) \in {".jpg", ".jpeg"}

\* A plausible slip: the dates are compared to the second.
SameDateExact(new_date, exif_date) == new_date = exif_date_to_datetime(exif_date)
\* lines 161-163, for one tag
SameDate(new_date, exif_date) == date(new_date) = date(exif_date_to_datetime(exif_date))

\* piexif.insert of the three tags
insert(w, id, str) ==
    LET s == Spend(w)
    IN IF ~Running(s) THEN s
       ELSE [s EXCEPT !.tags[id] = [readable |-> TRUE, DateTime |-> str,
                                     DateTimeOriginal |-> str, DateTimeDigitized |-> str],
                      !.writes = Append(@, id)]

utime(w, id, ts) ==
    LET s == Spend(w)
    IN IF ~Running(s) THEN s ELSE [s EXCEPT !.mtime[id] = <<ts>>]

\* A tag block that piexif.load cannot read raises; the tags that are present
\* are taken to hold well-formed date strings.
update_metadata(w, file_path, new_date) ==
    LET id == w.fs[file_path]
        exif_dict == w.tags[id]
        written == insert(w, id, strftime(new_date))
    IN IF ~IsExifImage(file_path)
       THEN [utime(w, id, timestamp(new_date)) EXCEPT !.ret = TRUE]
       ELSE IF ~exif_dict.readable THEN Raise(w)
       ELSE IF /\ exif_dict.DateTime # <<>>
               /\ exif_dict.DateTimeOriginal # <<>>
               /\ exif_dict.DateTimeDigitized # <<>>
               /\ \A t \in {exif_dict.DateTime, exif_dict.DateTimeOriginal,
                            exif_dict.DateTimeDigitized} : SameDate(new_date, t)
       THEN [w EXCEPT !.ret = FALSE]
       ELSE [utime(written, id, timestamp(new_date)) EXCEPT !.ret = TRUE]

UpdateIter(w) ==
    LET f == w.files[w.idx + 1]
        next == [w EXCEPT !.idx = @ + 1]
        json_file == get_json_file(w.fs, f)
        found == exists(w.fs, json_file)
        taken == IF found THEN get_photo_taken_date(sidecar[w.fs[json_file]]) ELSE <<>>
        u == IF ~found THEN [next EXCEPT !.ret = FALSE]
             ELSE IF taken = <<>> THEN Raise(next)
             ELSE update_metadata(next, f, taken[1])
        a == IF found
             THEN LET m == archive_file(u, json_file) IN Count(m, "archived_files", m.ret)
             ELSE u
        c == IF u.ret THEN Count(a, "updated_files", TRUE) ELSE Count(a, "skipped_files", TRUE)
    IN [c EXCEPT !.lastUpd =
            <<[file |-> f, found |-> found, taken |-> taken,
               tagsBefore |-> w.tags[w.fs[f]], mtimeBefore |-> w.mtime[w.fs[f]],
               tagsAfter |-> c.tags[w.fs[f]], mtimeAfter |-> c.mtime[w.fs[f]],
               ret |-> u.ret, halt |-> c.halt, wrote |-> Len(c.writes) - Len(w.writes),
               skipped |-> c.trackers.skipped_files - w.trackers.skipped_files,
               updated |-> c.trackers.updated_files - w.trackers.updated_files]>>]

RECURSIVE update_files(_)
update_files(w) ==
    IF ~Running(w) \/ w.idx >= Len(w.files) THEN w ELSE update_files(UpdateIter(w))

ArchiveIter(w) ==
    LET f == w.files[w.idx + 1]
        a == archive_file([w EXCEPT !.idx = @ + 1], f)
    IN IF a.ret THEN Count(a, "archived_files", TRUE) ELSE Count(a, "skipped_files", TRUE)

RECURSIVE archive_files(_)
archive_files(w) ==
    IF ~Running(w) \/ w.idx >= Len(w.files) THEN w ELSE archive_files(ArchiveIter(w))

(***************************************************************************)
(* main: the catalogue, then the phases its options enable.                *)
(***************************************************************************)
JsonOf(p) == [dir |-> p.dir, name |-> JsonName(p.name)]
\* Path(directory).rglob("*"), kept to the files with one of the suffixes exts:
\* each media file in scan order, and a sidecar where its media file would be.
rglob(f, exts) ==
    LET all == [i \in 1..(2 * Len(scan)) |->
                   IF i % 2 = 1 THEN scan[(i + 1) \div 2] ELSE JsonOf(scan[i \div 2])]
    IN SelectSeq(all, LAMBDA p : exists(f, p) /\ IsUnder(p.dir, target_dir) /\ suffix(p) \in exts)

NoTrackers == [deduplicated_files |-> 0, skipped_files |-> 0, updated_files |-> 0,
               archived_files |-> 0]

StartArchive(w, o) ==
    IF Running(w) /\ o.archive
    THEN [w EXCEPT !.files = rglob(w.fs, EXT_TO_ARCHIVE), !.idx = 0]
    ELSE w

main(w, o) ==
    LET files_to_process == rglob(w.fs, EXT_TO_UPDATE \cup EXT_TO_ARCHIVE)
        files_to_dedup == rglob(w.fs, EXT_TO_UPDATE)
        listed == [w EXCEPT !.files = files_to_dedup, !.idx = 0]
        d == IF o.dedup THEN deduplicate_files(listed) ELSE listed
        u == IF o.update THEN update_files([d EXCEPT !.idx = 0]) ELSE d
    IN IF Len(files_to_process) = 0 THEN w
       ELSE IF o.archive THEN archive_files(StartArchive(u, o)) ELSE u

(***************************************************************************)
(* The export the runs start from.                                         *)
(***************************************************************************)
Dir(segment) == target_dir \o <<segment>>
Album == Dir(<<"Album">>)
Trip == Dir(<<"Trip">>)
PhotosFrom2020 == Dir(<<"Photos", "from", "2020">>)
PhotosFrom2021 == Dir(<<"Photos", "from", "2021">>)
File(dir, name) == [dir |-> dir, name |-> name]
photo == <<"photo", ".jpg">>
beach == <<"beach", ".jpg">>
clip == <<"clip", ".mp4">>

\* The sequences without repetition of at most n elements of S.
Orders(S, n) ==
    UNION {{s \in [1..k -> S] : \A i, j \in 1..k : i # j => s[i] # s[j]} : k \in 0..n}

NoTags == [readable |-> TRUE, DateTime |-> <<>>, DateTimeOriginal |-> <<>>,
           DateTimeDigitized |-> <<>>]
Unreadable == [NoTags EXCEPT !.readable = FALSE]
AllTags(ts) ==
    LET str == strftime(fromtimestamp(ts))
    IN [readable |-> TRUE, DateTime |-> str, DateTimeOriginal |-> str, DateTimeDigitized |-> str]

\* An export: the media files of sc, a sidecar beside each one not in missing;
\* a JPEG holds one of the tag blocks, any other file holds none.
Export(sc, missing, contents, blocks) ==
    /\ scan = sc
    /\ fs = [p \in Range(sc) \cup {JsonOf(q) : q \in Range(sc) \ missing} |-> p]
    /\ tags \in {t \in [Range(sc) -> blocks \cup {NoTags}] :
                    \A q \in Range(sc) :
                        IF suffix(q) \in {".jpg", ".jpeg"} THEN t[q] \in blocks ELSE t[q] = NoTags}
    /\ sidecar \in [{JsonOf(q) : q \in Range(sc) \ missing} -> contents]
    /\ mtime = [q \in Range(sc) |-> <<>>]
    /\ trackers = NoTrackers
    /\ halt = "none"
    /\ moves = <<>>
    /\ writes = <<>>
    /\ lastArch = <<>>
    /\ lastUpd = <<>>

Snapshot == [fs |-> fs, tags |-> tags, mtime |-> mtime]

(***************************************************************************)
(* The steps of a run.                                                     *)
(***************************************************************************)
Set(w) ==
    /\ fs' = w.fs
    /\ tags' = w.tags
    /\ mtime' = w.mtime
    /\ files' = w.files
    /\ idx' = w.idx
    /\ trackers' = w.trackers
    /\ halt' = w.halt
    /\ moves' = w.moves
    /\ writes' = w.writes
    /\ lastArch' = w.lastArch
    /\ lastUpd' = w.lastUpd

\* Where main goes once the phase `after` is over (lines 287-299).
Enter(w, after) ==
    IF after = "start" /\ opts.dedup THEN [pc |-> "dedup", w |-> [w EXCEPT !.idx = 0]]
    ELSE IF after \in {"start", "dedup"} /\ opts.update
    THEN [pc |-> "update", w |-> [w EXCEPT !.idx = 0]]
    ELSE IF after \in {"start", "dedup", "update"} /\ opts.archive
    THEN [pc |-> "archive", w |-> StartArchive(w, opts)]
    ELSE [pc |-> "summary", w |-> w]

\* main up to its first loop: the catalogue, or the exit when it is empty.
Start ==
    /\ pc = "start"
    /\ LET listed == [World EXCEPT !.files = rglob(fs, EXT_TO_UPDATE)]
           go == Enter(listed, "start")
       IN IF Len(rglob(fs, EXT_TO_UPDATE \cup EXT_TO_ARCHIVE)) = 0
          THEN pc' = "exit" /\ Set(World)
          ELSE pc' = go.pc /\ Set(go.w)
    /\ runs' = Append(runs, Snapshot)
    /\ UNCHANGED <<sidecar, scan, opts>>

Step(phase, w) ==
    /\ pc = phase
    /\ idx < Len(files)
    /\ Set(w)
    /\ pc' = IF w.halt = "error" THEN "aborted" ELSE phase
    /\ UNCHANGED <<sidecar, scan, opts, runs>>

Return(phase) ==
    /\ pc = phase
    /\ idx >= Len(files)
    /\ LET go == Enter(World, phase) IN pc' = go.pc /\ Set(go.w)
    /\ UNCHANGED <<sidecar, scan, opts, runs>>

DedupStep == Step("dedup", DedupIter(World))
DedupReturn == Return("dedup")
UpdateStep == Step("update", UpdateIter(World))
UpdateReturn == Return("update")
ArchiveStep == Step("archive", ArchiveIter(World))
ArchiveReturn == Return("archive")

\* lines 301-309: the trackers are printed
Summary ==
    /\ pc = "summary"
    /\ pc' = "done"
    /\ UNCHANGED <<fs, tags, mtime, sidecar, scan, opts, files, idx, trackers, halt,
                   moves, writes, lastArch, lastUpd, runs>>

(***************************************************************************)
(* deduplicate_files on any list of files of an export.                    *)
(***************************************************************************)
DedupUniverse ==
    {File(d, photo) : d \in {Album, Trip, PhotosFrom2020, PhotosFrom2021}}
        \cup {File(d, n) : d \in {Album, PhotosFrom2020}, n \in {beach, clip}}
\* The export holds no sidecars in these folders.
DedupJsonless(sc) == {q \in Range(sc) : q.dir \in {Trip, PhotosFrom2021}}

InitDedup ==
    /\ \E sc \in Orders(DedupUniverse, MaxFiles) :
          Export(sc, DedupJsonless(sc), {<<100>>}, {NoTags})
    /\ opts = [dedup |-> TRUE, update |-> FALSE, archive |-> FALSE]
    /\ files = scan
    /\ idx = 0
    /\ pc = "dedup"
    /\ runs = <<Snapshot>>

NextDedup == DedupStep \/ DedupReturn
SpecDedup == InitDedup /\ [][NextDedup]_vars

(***************************************************************************)
(* Properties of deduplicate_files.                                        *)
(***************************************************************************)
\* The world of a run of one phase on `list`, from the snapshot `snap`.
Fresh(snap, list) ==
    [fs |-> snap.fs, tags |-> snap.tags, mtime |-> snap.mtime, files |-> list, idx |-> 0,
     trackers |-> NoTrackers, halt |-> "none", moves |-> <<>>, writes |-> <<>>,
     lastArch |-> <<>>, lastUpd |-> <<>>, fuel |-> -1, ret |-> FALSE]

\* Where a file of the export is when it is archived.
MirrorOf(p) ==
    [dir |-> target_parent \o <<ARCHIVE_FOLDER_NAME>> \o SubSeq(p.dir, Len(target_dir) + 1, Len(p.dir)),
     name |-> p.name]
InPlace(f, p) == exists(f, p) /\ f[p] = p
InArchive(f, p) == exists(f, MirrorOf(p)) /\ f[MirrorOf(p)] = p /\ ~exists(f, p)
HadSidecar(p) == JsonOf(p) \in DOMAIN runs[1].fs

Group(list, name) == {p \in Range(list) : p.name = name}
Outside(G) == {p \in G : ~InBulkFolder(p)}
DedupReturned == pc = "summary" /\ ~opts.update /\ ~opts.archive

\* C1: when deduplicate_files has returned, every name group of its input with
\* more than one member and exactly one member outside the bulk folders has all
\* its bulk members in the archive, each with its sidecar when it had one, and
\* the returned list holds exactly one file of that name, the outside member.
C1_ExactlyOneCanonical ==
    DedupReturned =>
        \A name \in {p.name : p \in Range(scan)} :
            LET G == Group(scan, name)
            IN (Cardinality(G) > 1 /\ Cardinality(Outside(G)) = 1) =>
                  /\ \A p \in G \ Outside(G) :
                        /\ InArchive(fs, p)
                        /\ HadSidecar(p) => InArchive(fs, JsonOf(p))
                  /\ Group(files, name) = Outside(G)
                  /\ Len(SelectSeq(files, LAMBDA f : f.name = name)) = 1

Orderings(list) ==
    {s \in [1..Len(list) -> Range(list)] : \A i, j \in 1..Len(list) : i # j => s[i] # s[j]}
Outcome(w) ==
    [archived |-> {w.moves[i].id : i \in 1..Len(w.moves)},
     working |-> Range(w.files),
     deduplicated |-> w.trackers.deduplicated_files,
     archivedCount |-> w.trackers.archived_files]

\* C2: when deduplicate_files has returned, the files it archived, the set it
\* returns and its two counters are those it produces on every other ordering
\* of the same input.
C2_OrderIndependent ==
    DedupReturned =>
        \A other \in Orderings(scan) :
            Outcome(deduplicate_files(Fresh(runs[1], other))) = Outcome(World)

Ambiguous(G) == Cardinality(Outside(G)) = 0 \/ Cardinality(Outside(G)) >= 2

\* C3: at every point of deduplicate_files, every member of a name group with
\* no member or with two or more members outside the bulk folders is where it
\* was, as is its sidecar, and is still in the working list.
C3_AmbiguousUntouched ==
    (pc = "dedup" \/ DedupReturned) =>
        \A name \in {p.name : p \in Range(scan)} :
            LET G == Group(scan, name)
            IN Ambiguous(G) =>
                  \A p \in G :
                      /\ InPlace(fs, p)
                      /\ HadSidecar(p) => InPlace(fs, JsonOf(p))
                      /\ Len(SelectSeq(files, LAMBDA f : f = p)) = 1

\* deduplicate_files has returned after it archived the duplicates of one name,
\* on a list that also holds a name with a copy in a bulk folder and two
\* outside.
C3_Witness ==
    /\ DedupReturned
    /\ moves # <<>>
    /\ \E name \in {p.name : p \in Range(scan)} :
          /\ Cardinality(Outside(Group(scan, name))) >= 2
          /\ Group(scan, name) # Outside(Group(scan, name))

(***************************************************************************)
(* update_files on any working list of an export.                          *)
(***************************************************************************)
UpdateUniverse == {File(Album, n) : n \in {photo, beach, clip}}
\* The capture times of the sidecars: two of one day, one of the next.
UpdateStamps == {<<100>>, <<86500>>}
PartTags == [AllTags(100) EXCEPT !.DateTimeDigitized = <<>>]
UpdateBlocks == {Unreadable, NoTags, PartTags, AllTags(100), AllTags(200), AllTags(86500)}

InitUpdate ==
    /\ \E sc \in Orders(UpdateUniverse, MaxFiles) : \E missing \in SUBSET Range(sc) :
          Export(sc, missing, UpdateStamps \cup {<<>>}, UpdateBlocks)
    /\ opts = [dedup |-> FALSE, update |-> TRUE, archive |-> FALSE]
    /\ files = scan
    /\ idx = 0
    /\ pc = "update"
    /\ runs = <<Snapshot>>

NextUpdate == UpdateStep \/ UpdateReturn
SpecUpdate == InitUpdate /\ [][NextUpdate]_vars

\* The last iteration of update_files found the file's sidecar and read a
\* capture time from it, and no exception was raised.
Updated(u) == u.found /\ u.taken # <<>> /\ u.halt = "none"
TagImage(p) == p.name[Len(p.name)] \in {".jpg", ".jpeg"}
AllThreeOn(block, day) ==
    /\ block.readable
    /\ \A t \in {block.DateTime, block.DateTimeOriginal, block.DateTimeDigitized} :
          t # <<>> /\ t[1] = day

\* C4 as stated: update_metadata returns True exactly when it rewrote the
\* three tags, and a file that is no .jpg/.jpeg is counted as skipped, never
\* as updated.
C4_TrueIffTagsRewritten ==
    \A i \in 1..Len(lastUpd) :
        LET u == lastUpd[i]
        IN Updated(u) =>
              /\ u.ret <=> (u.wrote = 1)
              /\ ~TagImage(u.file) => (~u.ret /\ u.skipped = 1 /\ u.updated = 0)

\* C4 as amended: update_metadata returns False exactly for a .jpg/.jpeg file
\* whose three tags all exist and are of the sidecar's day; for a file that is
\* no .jpg/.jpeg it writes no tag, sets the file's time to the sidecar's and
\* returns True, and update_files counts that file as updated, not as skipped.
C4_TrueIffAnythingUpdated ==
    \A i \in 1..Len(lastUpd) :
        LET u == lastUpd[i]
        IN Updated(u) =>
              /\ ~u.ret <=> (TagImage(u.file) /\ AllThreeOn(u.tagsBefore, u.taken[1].day))
              /\ u.updated = (IF u.ret THEN 1 ELSE 0)
              /\ u.skipped = (IF u.ret THEN 0 ELSE 1)
              /\ ~TagImage(u.file) =>
                    /\ u.ret /\ u.wrote = 0 /\ u.updated = 1 /\ u.skipped = 0
                    /\ u.mtimeAfter = <<timestamp(u.taken[1])>>

\* update_files has just counted a video with a sidecar as updated.
C4_Witness ==
    /\ lastUpd # <<>>
    /\ Updated(lastUpd[1])
    /\ lastUpd[1].file.name = clip
    /\ lastUpd[1].updated = 1

\* C5 as stated: for an image whose three tags all exist and are of the
\* sidecar's day, update_metadata returns False, leaves the tags as they are
\* and sets the file's time to the sidecar's timestamp.
C5_SkipStillSetsTime ==
    \A i \in 1..Len(lastUpd) :
        LET u == lastUpd[i]
        IN (Updated(u) /\ TagImage(u.file) /\ AllThreeOn(u.tagsBefore, u.taken[1].day)) =>
              /\ ~u.ret
              /\ u.tagsAfter = u.tagsBefore
              /\ u.mtimeAfter = <<timestamp(u.taken[1])>>

\* C5 as amended: for such an image update_metadata returns False and leaves
\* both the tags and the file's time as they are.
C5_SkipChangesNothing ==
    \A i \in 1..Len(lastUpd) :
        LET u == lastUpd[i]
        IN (Updated(u) /\ TagImage(u.file) /\ AllThreeOn(u.tagsBefore, u.taken[1].day)) =>
              /\ ~u.ret
              /\ u.wrote = 0
              /\ u.tagsAfter = u.tagsBefore
              /\ u.mtimeAfter = u.mtimeBefore

\* update_files has just skipped an image whose tags are of the sidecar's day
\* but not of its second.
C5_Witness ==
    /\ lastUpd # <<>>
    /\ Updated(lastUpd[1])
    /\ TagImage(lastUpd[1].file)
    /\ lastUpd[1].tagsBefore = AllTags(200)
    /\ lastUpd[1].taken[1] = fromtimestamp(100)
    /\ ~lastUpd[1].ret

\* C8: when the sidecar of a file does not parse, or the tag block of an image
\* cannot be read, update_files counts that file as skipped and goes on: no
\* exception leaves it.
C8_ErrorScopedToFile ==
    \A i \in 1..Len(lastUpd) :
        LET u == lastUpd[i]
        IN (u.found /\ (u.taken = <<>> \/ (TagImage(u.file) /\ ~u.tagsBefore.readable))) =>
              /\ u.halt = "none"
              /\ u.skipped = 1
              /\ pc # "aborted"

(***************************************************************************)
(* archive_file called on any file there is, any number of times.          *)
(***************************************************************************)
ArchiveUniverse ==
    {File(d, photo) : d \in {Album, PhotosFrom2020, Dir(ARCHIVE_FOLDER_NAME)}}
        \cup {File(Album, clip)}

InitArchive ==
    /\ \E S \in SUBSET ArchiveUniverse :
          LET sc == CHOOSE s \in Orders(S, MaxFiles) : Range(s) = S
          IN Cardinality(S) <= MaxFiles /\ Export(sc, DedupJsonless(sc), {<<100>>}, {NoTags})
    /\ opts = [dedup |-> FALSE, update |-> FALSE, archive |-> FALSE]
    /\ files = <<>>
    /\ idx = 0
    /\ pc = "call"
    /\ runs = <<Snapshot>>

ArchiveCall ==
    /\ pc = "call"
    /\ \E file \in DOMAIN fs : Set(archive_file(World, file))
    /\ UNCHANGED <<sidecar, scan, opts, pc, runs>>

NextArchive == ArchiveCall
SpecArchive == InitArchive /\ [][NextArchive]_vars

WhereIs(f, id) == CHOOSE p \in DOMAIN f : f[p] = id

\* C6: archive_file called on a file whose path has the archive folder's name
\* as a segment returns False and leaves every file where it is; and once
\* archive_file has moved a file, the archive directory computed for the
\* file's new path is the directory it is in, and a second call on it returns
\* False and changes nothing.
C6_ArchiveIdempotent ==
    \A i \in 1..Len(lastArch) :
        LET a == lastArch[i]
            new == WhereIs(fs, a.fsBefore[a.file])
            again == archive_file(World, new)
        IN /\ (\E k \in 1..Len(a.file.dir) : a.file.dir[k] = ARCHIVE_FOLDER_NAME) =>
                  (~a.ret /\ fs = a.fsBefore)
           /\ a.ret =>
                  /\ new # a.file
                  /\ get_archive_dir(new) = new.dir
                  /\ ~again.ret
                  /\ again.fs = fs

\* archive_file has just moved a file of the export into the archive mirror,
\* after an earlier call had moved another one.
C6_Witness ==
    /\ pc = "call"
    /\ lastArch # <<>>
    /\ lastArch[1].ret
    /\ InArchive(fs, lastArch[1].file)
    /\ Len(moves) >= 2

(***************************************************************************)
(* Whole runs of main, with any options, one after the other.              *)
(***************************************************************************)
RunUniverse ==
    {File(d, photo) : d \in {Album, PhotosFrom2020, PhotosFrom2021}}
        \cup {File(d, clip) : d \in {Album, PhotosFrom2020}}
RunJsonless(sc) == {q \in Range(sc) : q.dir = PhotosFrom2021}
Options == [dedup : BOOLEAN, update : BOOLEAN, archive : BOOLEAN]

InitRun ==
    /\ \E sc \in Orders(RunUniverse, MaxFiles) :
       \E missing \in {{}, RunJsonless(sc)} :
       \E block \in {NoTags, AllTags(100)} :
          Export(sc, missing, {<<100>>}, {block})
    /\ opts \in Options
    /\ files = <<>>
    /\ idx = 0
    /\ pc = "start"
    /\ runs = <<>>

\* A new process: the module's trackers are back at zero.
Relaunch(from) ==
    /\ pc \in from
    /\ Len(runs) < MaxRuns
    /\ pc' = "start"
    /\ halt' = "none"
    /\ trackers' = NoTrackers
    /\ files' = <<>>
    /\ idx' = 0
    /\ UNCHANGED <<fs, tags, mtime, sidecar, scan, opts, moves, writes, lastArch, lastUpd, runs>>

Rerun == Relaunch({"done", "aborted", "exit"})

NextRun ==
    \/ Start
    \/ DedupStep
    \/ DedupReturn
    \/ UpdateStep
    \/ UpdateReturn
    \/ ArchiveStep
    \/ ArchiveReturn
    \/ Summary
    \/ Rerun
SpecRun == InitRun /\ [][NextRun]_vars

NoRepeat(s) == \A i, j \in 1..Len(s) : i # j => s[i] # s[j]

\* C9: through every run, every file of the export is at exactly one path, the
\* one it had or its mirror in the archive, and no move ever went onto a path
\* that held a file.
C9_NothingLost ==
    runs # <<>> =>
        /\ \A id \in DOMAIN runs[1].fs :
              /\ Cardinality({p \in DOMAIN fs : fs[p] = id}) = 1
              /\ InPlace(fs, id) \/ InArchive(fs, id)
        /\ \A i \in 1..Len(moves) : moves[i].onto = <<>>

\* A run with its three phases enabled has ended after it moved two media
\* files of the same name and their sidecars.
C9_Witness ==
    /\ pc = "done"
    /\ opts = [dedup |-> TRUE, update |-> TRUE, archive |-> TRUE]
    /\ InArchive(fs, File(PhotosFrom2020, photo))
    /\ InArchive(fs, File(PhotosFrom2021, photo))
    /\ InArchive(fs, JsonOf(File(PhotosFrom2020, photo)))
    /\ InArchive(fs, JsonOf(File(PhotosFrom2021, photo)))

\* photo.jpg with its sidecar under Album and under two bulk folders, the
\* tags of the Album copy not of the sidecar's day, and a first run with dedup
\* and update enabled has ended.
Scenario ==
    /\ pc = "done"
    /\ Len(runs) = 1
    /\ opts.dedup /\ opts.update
    /\ Range(scan) = {File(d, photo) : d \in {Album, PhotosFrom2020, PhotosFrom2021}}
    /\ \A q \in Range(scan) : JsonOf(q) \in DOMAIN runs[1].fs
    /\ runs[1].tags[File(Album, photo)] = NoTags
ScenarioFiles ==
    /\ \A d \in {PhotosFrom2020, PhotosFrom2021} :
          InArchive(fs, File(d, photo)) /\ InArchive(fs, JsonOf(File(d, photo)))
    /\ InPlace(fs, File(Album, photo))
    /\ tags[File(Album, photo)] = AllTags(100)
    /\ InArchive(fs, JsonOf(File(Album, photo)))

\* C10 as stated: in the scenario both bulk copies and their sidecars are
\* archived, Album/photo.jpg stays with its tags rewritten, its sidecar is
\* archived, and the trackers end at deduplicated 2, updated 1, archived 1.
C10_TallyOneArchived ==
    Scenario =>
        /\ ScenarioFiles
        /\ trackers.deduplicated_files = 2
        /\ trackers.updated_files = 1
        /\ trackers.archived_files = 1

\* C10 as amended: the same, with the archived tracker at 3: the two
\* duplicates' sidecars and the survivor's.
C10_TallyThreeArchived ==
    Scenario =>
        /\ ScenarioFiles
        /\ trackers.deduplicated_files = 2
        /\ trackers.updated_files = 1
        /\ trackers.archived_files = 3
        /\ trackers.skipped_files = 0

C10_Witness == Scenario /\ ScenarioFiles /\ trackers.archived_files = 3

(***************************************************************************)
(* A run with its three phases, killed between two filesystem operations   *)
(* and started again.                                                      *)
(***************************************************************************)
RestartUniverse == {File(d, n) : d \in {Album, PhotosFrom2020}, n \in {photo, beach, clip}}

InitRestart ==
    /\ \E sc \in Orders(RestartUniverse, MaxFiles) : Export(sc, {}, {<<100>>}, {NoTags})
    /\ opts = [dedup |-> TRUE, update |-> TRUE, archive |-> TRUE]
    /\ files = <<>>
    /\ idx = 0
    /\ pc = "start"
    /\ runs = <<>>

Iter(phase, w) ==
    IF phase = "dedup" THEN DedupIter(w)
    ELSE IF phase = "update" THEN UpdateIter(w)
    ELSE ArchiveIter(w)

\* The process is killed in the running iteration, after k of its filesystem
\* operations and before the next one.
Crash ==
    /\ pc \in {"dedup", "update", "archive"}
    /\ idx < Len(files)
    /\ Len(runs) < MaxRuns
    /\ \E k \in 0..(2 * MaxFiles) :
          LET w == Iter(pc, [World EXCEPT !.fuel = k])
          IN w.halt = "crash" /\ Set(w)
    /\ pc' = "crashed"
    /\ UNCHANGED <<sidecar, scan, opts, runs>>

Restart == Relaunch({"crashed"})

NextRestart ==
    \/ Start
    \/ DedupStep
    \/ DedupReturn
    \/ UpdateStep
    \/ UpdateReturn
    \/ ArchiveStep
    \/ ArchiveReturn
    \/ Summary
    \/ Crash
    \/ Restart
SpecRestart == InitRestart /\ [][NextRestart]_vars

\* C7: when a run that was killed and started again has ended, every file and
\* every tag block is where and what one run that is not killed leaves it, and
\* no file was moved twice and no tag block written twice.
C7_RestartCompletesTheRun ==
    (pc = "done" /\ Len(runs) = 2) =>
        LET whole == main(Fresh(runs[1], <<>>), opts)
        IN /\ fs = whole.fs
           /\ tags = whole.tags
           /\ NoRepeat([i \in 1..Len(moves) |-> moves[i].id])
           /\ NoRepeat(writes)
====
